---- MODULE Spec2Model ----
(***************************************************************************)
(* A model of tomlconf (src/src/config.rs): locating, opening, creating,    *)
(* reloading and saving one TOML configuration file.                        *)
(*                                                                          *)
(* Paths are sequences of components (<<>> is the root).  File contents are *)
(* sequences of tokens, records are the values of a one-field struct.  An   *)
(* Option is a sequence of length at most one.  Every library call is one   *)
(* atomic step of the calling thread, so each public function is an action. *)
(***************************************************************************)
EXTENDS Integers, Sequences, FiniteSets, TLC

\* ------------------------------------------------------------------ bounds
\* Steps of one behaviour: the library calls made by the application and the
\* changes made to the filesystem by other programs.
MaxSteps == 3
\* Components of a path handed to get_backup on its own.
MaxPathLen == 2

\* ----------------------------------------------------------------- options
NoneV == <<>>
Some(x) == <<x>>
IsSome(o) == o # <<>>
Unwrap(o) == o[1]

\* ------------------------------------------------------------------- paths
Root == <<>>

\* std::path::Path::file_name: None for the root and for a path ending in "..".
file_name(path) ==
  IF path = Root THEN NoneV
  ELSE IF path[Len(path)] = ".." THEN NoneV
  ELSE Some(path[Len(path)])

\* std::path::Path::parent: None for the root.
parent(path) ==
  IF path = Root THEN NoneV ELSE Some(SubSeq(path, 1, Len(path) - 1))

\* std::path::Path::with_file_name: replace the last component when there is
\* a file name, push otherwise.
with_file_name(path, name) ==
  IF IsSome(file_name(path))
  THEN Append(SubSeq(path, 1, Len(path) - 1), name)
  ELSE Append(path, name)

\* PathBuf::push of a relative file name.
push(path, name) == Append(path, name)

RECURSIVE display(_)
\* Path::display: the components joined by the separator.
display(path) ==
  IF path = Root THEN "/"
  ELSE IF Len(path) = 1 THEN "/" \o path[1]
  ELSE display(SubSeq(path, 1, Len(path) - 1)) \o "/" \o path[Len(path)]

PREFIX == ".bkp."

\* A slip: the backup gets one fixed name whatever the file is called.
get_backup_FixedName(path) ==
  IF ~IsSome(file_name(path)) THEN NoneV
  ELSE Some(with_file_name(path, PREFIX \o "bak"))

\* get_backup: the sibling whose file name is PREFIX followed by the name.
get_backup(path) ==
  IF ~IsSome(file_name(path)) THEN NoneV
  ELSE Some(with_file_name(path, PREFIX \o Unwrap(file_name(path))))

\* --------------------------------------------------------------- arguments
Qualifiers == {"", "com"}
Organizations == {"Acme"}
Applications == {"tool"}
FileNames == {"config.toml"}
Args == Qualifiers \X Organizations \X Applications \X FileNames

\* The platform's configuration home (XDG_CONFIG_HOME).
Base == <<"cfg">>

\* ProjectDirs::from(..).config_dir(): None without a home directory; on
\* Linux the project directory is named after the application alone.
ProjectDirs_config_dir(home, qualifier, organization, application) ==
  IF ~home THEN NoneV ELSE Some(push(Base, application))

\* find_path: the project's configuration directory joined with filename.
find_path(home, qualifier, organization, application, filename) ==
  LET dirs == ProjectDirs_config_dir(home, qualifier, organization, application)
  IN  IF ~IsSome(dirs) THEN NoneV ELSE Some(push(Unwrap(dirs), filename))

\* The paths of the modelled filesystem.
ProjectDirsAll == {push(Base, a) : a \in Applications}
MainPaths == {push(d, f) : d \in ProjectDirsAll, f \in FileNames}
BackupPaths == {Unwrap(get_backup(p)) : p \in MainPaths}
FilePaths == MainPaths \cup BackupPaths
DirPaths == {Base} \cup ProjectDirsAll
Paths == {Root} \cup DirPaths \cup FilePaths
\* The paths the application passes explicitly to open, from_path and create,
\* and those it binds a record of its own to.
ArgPaths == MainPaths
HandlePaths == MainPaths \cup {Root}

\* ------------------------------------------------------------------- codec
\* The record type: struct Cfg { name }, the values of its field, and one
\* value the serializer rejects.
Unser == "<unserializable>"
Recs == {"a", "A", Unser}
NoCfg == "<none>"

Space == " "
BadByte == "<0xFF>"
TxtA == <<"name", "=", "a">>
TxtUpper == <<"name", "=", "A">>
TxtBroken == <<"name", "=">>
TxtBinary == <<"name", BadByte>>
NoText == <<>>

RECURSIVE Strip(_)
\* The parser skips whitespace between tokens.
Strip(text) ==
  IF text = <<>> THEN <<>>
  ELSE IF text[1] = Space THEN Strip(Tail(text))
  ELSE <<text[1]>> \o Strip(Tail(text))

\* toml::from_str::<Cfg>: [ok, cfg, err].
from_str(text) ==
  LET t == Strip(text)
  IN  IF Len(t) = 3 /\ t[1] = "name" /\ t[2] = "=" /\ t[3] \in {"a", "A"}
      THEN [ok |-> TRUE, cfg |-> t[3], err |-> ""]
      ELSE [ok |-> FALSE, cfg |-> NoCfg, err |-> "TomlDeError"]

\* toml::to_string: [ok, text, err]; the canonical form has spaces.
to_string(data) ==
  IF data = Unser
  THEN [ok |-> FALSE, text |-> NoText, err |-> "TomlSerError"]
  ELSE [ok |-> TRUE, text |-> <<"name", Space, "=", Space, data>>, err |-> ""]


\* ConfigData::prepare: a no-op by default, overridden to fold the case or
\* to swap it (an override that is not idempotent).
prepare(hook, cfg) ==
  IF hook = "lower" /\ cfg = "A" THEN "a"
  ELSE IF hook = "swap" /\ cfg = "A" THEN "a"
  ELSE IF hook = "swap" /\ cfg = "a" THEN "A"
  ELSE cfg

\* String::from_utf8 inside read_to_string.
IsUtf8(text) == \A i \in DOMAIN text : text[i] # BadByte

\* What other programs write into a file.
Texts == {TxtA, TxtBroken, TxtBinary}

\* The record types the application may define: its prepare and its DEFAULT.
RecordTypes ==
  {[hook |-> "identity", dflt |-> TxtUpper],
   [hook |-> "lower", dflt |-> TxtUpper],
   [hook |-> "swap", dflt |-> TxtUpper],
   [hook |-> "identity", dflt |-> TxtBroken]}

\* -------------------------------------------------------------- filesystem
\* A node: kind "none" | "dir" | "file"; perm is write permission for a
\* directory and read/write permission for a file.
Absent == [kind |-> "none", text |-> NoText, perm |-> FALSE]
Dir(w) == [kind |-> "dir", text |-> NoText, perm |-> w]
RegFile(text, p) == [kind |-> "file", text |-> text, perm |-> p]

\* Path::exists.
exists(fs, path) == path \in DOMAIN fs /\ fs[path].kind # "none"

IoOk == ""
IoResult(fs, err) == [fs |-> fs, err |-> err]

\* std::fs::rename within one directory.
rename(fs, from, to) ==
  IF ~exists(fs, from) THEN IoResult(fs, "NotFound")
  ELSE IF ~fs[Unwrap(parent(from))].perm THEN IoResult(fs, "PermissionDenied")
  ELSE IF fs[from].kind = "file" /\ fs[to].kind = "dir"
       THEN IoResult(fs, "IsADirectory")
  ELSE IF fs[from].kind = "dir" /\ fs[to].kind = "file"
       THEN IoResult(fs, "NotADirectory")
  ELSE IoResult([fs EXCEPT ![to] = fs[from], ![from] = Absent], IoOk)

RECURSIVE create_dir_all(_, _)
\* std::fs::create_dir_all: the missing ancestors first, then the directory.
create_dir_all(fs, path) ==
  IF exists(fs, path)
  THEN IF fs[path].kind = "dir" THEN IoResult(fs, IoOk)
       ELSE IoResult(fs, "AlreadyExists")
  ELSE LET up == create_dir_all(fs, Unwrap(parent(path)))
       IN  IF up.err # IoOk THEN up
           ELSE IF ~up.fs[Unwrap(parent(path))].perm
                THEN IoResult(up.fs, "PermissionDenied")
           ELSE IoResult([up.fs EXCEPT ![path] = Dir(TRUE)], IoOk)

\* File::create(path)?.write_all(text): create or truncate, then write.
write_file(fs, path, text) ==
  IF exists(fs, path)
  THEN IF fs[path].kind = "dir" THEN IoResult(fs, "IsADirectory")
       ELSE IF ~fs[path].perm THEN IoResult(fs, "PermissionDenied")
       ELSE IoResult([fs EXCEPT ![path] = RegFile(text, TRUE)], IoOk)
  ELSE IF ~exists(fs, Unwrap(parent(path))) THEN IoResult(fs, "NotFound")
  ELSE IF ~fs[Unwrap(parent(path))].perm THEN IoResult(fs, "PermissionDenied")
  ELSE IoResult([fs EXCEPT ![path] = RegFile(text, TRUE)], IoOk)

\* File::open, seek, rewind and read_to_string: [err, data].
read_file(fs, path) ==
  IF ~exists(fs, path) THEN [err |-> "NotFound", data |-> NoText]
  ELSE IF fs[path].kind = "dir" THEN [err |-> "IsADirectory", data |-> NoText]
  ELSE IF ~fs[path].perm THEN [err |-> "PermissionDenied", data |-> NoText]
  ELSE IF ~IsUtf8(fs[path].text) THEN [err |-> "InvalidData", data |-> NoText]
  ELSE [err |-> IoOk, data |-> fs[path].text]

\* ------------------------------------------------------------------- state
VARIABLES
  fs,       \* the filesystem: Paths -> node
  home,     \* whether the platform can resolve a home directory
  hook,     \* the record type's prepare: "identity" or "lower"
  dflt,     \* the record type's DEFAULT text
  cf,       \* the application's ConfigFile handle, as an Option
  last,     \* the last library call: [op, args, res, saw, panic]
  prev,     \* the library call before it: [op, args, res]
  touched,  \* another program changed the filesystem since the last call
  calls,    \* library calls made so far
  envs      \* filesystem changes made by other programs so far

vars == <<calls, envs, fs, home, hook, dflt, cf, last, prev, touched>>

\* ---------------------------------------------------------- result values
FileInaccessible(e) == [tag |-> "FileInaccessible", err |-> e, cfg |-> NoCfg]
FileInvalid(e) == [tag |-> "FileInvalid", err |-> e, cfg |-> NoCfg]
FileValid(c) == [tag |-> "FileValid", err |-> "", cfg |-> c]
NoOpen == [tag |-> "-", err |-> "", cfg |-> NoCfg]

\* Display for ConfigOpen.
open_display(o) ==
  IF o.tag = "FileInaccessible" THEN <<"Cannot access file: ", o.err>>
  ELSE IF o.tag = "FileInvalid" THEN <<"Cannot read configuration: ", o.err>>
  ELSE <<"Successfully read file">>

NoPath == [tag |-> "NoPath", path |-> NoneV, open |-> NoOpen]
DoesNotExist(p) == [tag |-> "DoesNotExist", path |-> Some(p), open |-> NoOpen]
Exists(p, o) == [tag |-> "Exists", path |-> Some(p), open |-> o]

\* ConfigFind::path.
find_path_of(found) ==
  IF found.tag = "NoPath" THEN NoneV ELSE found.path

\* ConfigData::with_path.
with_path(data, path) == [data |-> data, path |-> path]

Ok(msg, handle) == [ok |-> TRUE, msg |-> msg, cf |-> Some(handle)]
Err(msg) == [ok |-> FALSE, msg |-> msg, cf |-> NoneV]

\* ------------------------------------------------------------- ConfigData
\* A slip: a file that cannot be read is taken for the default text.
open_DefaultWhenMissing(f, path) ==
  LET rd == read_file(f, path)
      p == from_str(IF rd.err # IoOk THEN dflt ELSE rd.data)
  IN  IF ~p.ok THEN FileInvalid(p.err) ELSE FileValid(prepare(hook, p.cfg))

\* A slip: a file that does not parse is taken for the default record.
open_Lenient(f, path) ==
  LET rd == read_file(f, path)
  IN  IF rd.err # IoOk THEN FileInaccessible(rd.err)
      ELSE LET p == from_str(rd.data)
           IN  FileValid(prepare(hook, IF p.ok THEN p.cfg ELSE "a"))

\* A slip: the record is prepared in the parser's callback and again here.
open_PreparesTwice(f, path) ==
  LET rd == read_file(f, path)
  IN  IF rd.err # IoOk THEN FileInaccessible(rd.err)
      ELSE LET p == from_str(rd.data)
           IN  IF ~p.ok THEN FileInvalid(p.err)
               ELSE FileValid(prepare(hook, prepare(hook, p.cfg)))

\* ConfigData::open: read the whole file, parse it, prepare the record.
open(f, path) ==
  LET rd == read_file(f, path)
  IN  IF rd.err # IoOk THEN FileInaccessible(rd.err)
      ELSE LET p == from_str(rd.data)
           IN  IF ~p.ok THEN FileInvalid(p.err)
               ELSE FileValid(prepare(hook, p.cfg))

\* ConfigData::default.
default ==
  LET p == from_str(dflt)
  IN  IF ~p.ok THEN [ok |-> FALSE, cfg |-> NoCfg, err |-> p.err]
      ELSE [ok |-> TRUE, cfg |-> prepare(hook, p.cfg), err |-> ""]

\* What create and save return besides their result: the branch of the
\* backup-or-parent policy that was entered ("backup", "parent" or "none") and
\* the filesystem and codec operations carried out, in order, each with its
\* error (IoOk for none).
Step(name, err) == <<name, err>>
Done(fs2, err, branch, steps) ==
  [fs |-> fs2, err |-> err, branch |-> branch, steps |-> steps]

\* A slip: an existing file is opened for appending instead of truncated.
create_Appends(f, path, create_backup, create_parent) ==
  LET w == IF exists(f, path) /\ f[path].kind = "file" /\ f[path].perm
           THEN IoResult([f EXCEPT ![path] = RegFile(f[path].text \o dflt, TRUE)],
                         IoOk)
           ELSE write_file(f, path, dflt)
  IN  Done(w.fs, w.err, "none", <<Step("write", w.err)>>)

\* A slip: the backup branch is entered on create_backup alone, without the
\* test that something exists at the path.
create_BackupUnconditional(f, path, create_backup, create_parent) ==
  LET pre ==
        IF create_backup
        THEN IF IsSome(get_backup(path))
             THEN LET rn == rename(f, path, Unwrap(get_backup(path)))
                  IN  Done(rn.fs, IoOk, "backup", <<Step("rename", rn.err)>>)
             ELSE Done(f, IoOk, "backup", <<>>)
        ELSE IF create_parent
             THEN IF IsSome(parent(path)) /\ ~exists(f, Unwrap(parent(path)))
                  THEN LET mk == create_dir_all(f, Unwrap(parent(path)))
                       IN  Done(mk.fs, mk.err, "parent",
                                <<Step("create_dir_all", mk.err)>>)
                  ELSE Done(f, IoOk, "parent", <<>>)
             ELSE Done(f, IoOk, "none", <<>>)
  IN  IF pre.err # IoOk THEN pre
      ELSE LET w == write_file(pre.fs, path, dflt)
           IN  Done(w.fs, w.err, pre.branch,
                    pre.steps \o <<Step("write", w.err)>>)

\* A slip: the rename's error is returned with the ? operator.
create_ReportsRename(f, path, create_backup, create_parent) ==
  LET pre ==
        IF create_backup /\ exists(f, path)
        THEN IF IsSome(get_backup(path))
             THEN LET rn == rename(f, path, Unwrap(get_backup(path)))
                  IN  Done(rn.fs, rn.err, "backup", <<Step("rename", rn.err)>>)
             ELSE Done(f, IoOk, "backup", <<>>)
        ELSE IF create_parent
             THEN IF IsSome(parent(path)) /\ ~exists(f, Unwrap(parent(path)))
                  THEN LET mk == create_dir_all(f, Unwrap(parent(path)))
                       IN  Done(mk.fs, mk.err, "parent",
                                <<Step("create_dir_all", mk.err)>>)
                  ELSE Done(f, IoOk, "parent", <<>>)
             ELSE Done(f, IoOk, "none", <<>>)
  IN  IF pre.err # IoOk THEN pre
      ELSE LET w == write_file(pre.fs, path, dflt)
           IN  Done(w.fs, w.err, pre.branch,
                    pre.steps \o <<Step("write", w.err)>>)

\* A slip: the two branches are tested in the other order.
create_ParentFirst(f, path, create_backup, create_parent) ==
  LET pre ==
        IF create_parent
        THEN IF IsSome(parent(path)) /\ ~exists(f, Unwrap(parent(path)))
             THEN LET mk == create_dir_all(f, Unwrap(parent(path)))
                  IN  Done(mk.fs, mk.err, "parent",
                           <<Step("create_dir_all", mk.err)>>)
             ELSE Done(f, IoOk, "parent", <<>>)
        ELSE IF create_backup /\ exists(f, path)
             THEN IF IsSome(get_backup(path))
                  THEN LET rn == rename(f, path, Unwrap(get_backup(path)))
                       IN  Done(rn.fs, IoOk, "backup", <<Step("rename", rn.err)>>)
                  ELSE Done(f, IoOk, "backup", <<>>)
             ELSE Done(f, IoOk, "none", <<>>)
  IN  IF pre.err # IoOk THEN pre
      ELSE LET w == write_file(pre.fs, path, dflt)
           IN  Done(w.fs, w.err, pre.branch,
                    pre.steps \o <<Step("write", w.err)>>)

\* ConfigData::create: back the old file up or make the parent directory,
\* then write DEFAULT.
create(f, path, create_backup, create_parent) ==
  LET pre ==
        IF create_backup /\ exists(f, path)
        THEN IF IsSome(get_backup(path))
             THEN LET rn == rename(f, path, Unwrap(get_backup(path)))
                  IN  Done(rn.fs, IoOk, "backup", <<Step("rename", rn.err)>>)
             ELSE Done(f, IoOk, "backup", <<>>)
        ELSE IF create_parent
             THEN IF IsSome(parent(path))
                  THEN IF ~exists(f, Unwrap(parent(path)))
                       THEN LET mk == create_dir_all(f, Unwrap(parent(path)))
                            IN  Done(mk.fs, mk.err, "parent",
                                     <<Step("create_dir_all", mk.err)>>)
                       ELSE Done(f, IoOk, "parent", <<>>)
                  ELSE Done(f, IoOk, "parent", <<>>)
             ELSE Done(f, IoOk, "none", <<>>)
  IN  IF pre.err # IoOk THEN pre
      ELSE LET w == write_file(pre.fs, path, dflt)
           IN  Done(w.fs, w.err, pre.branch,
                    pre.steps \o <<Step("write", w.err)>>)

\* A slip: the existence test is left out.
find_NoExistsCheck(f, qualifier, organization, application, file) ==
  LET p == find_path(home, qualifier, organization, application, file)
  IN  IF ~IsSome(p) THEN NoPath ELSE DoesNotExist(Unwrap(p))

\* ConfigData::find.
find(f, qualifier, organization, application, file) ==
  LET p == find_path(home, qualifier, organization, application, file)
  IN  IF ~IsSome(p) THEN NoPath
      ELSE IF ~exists(f, Unwrap(p)) THEN DoesNotExist(Unwrap(p))
      ELSE Exists(Unwrap(p), open(f, Unwrap(p)))

\* A slip: whether the file exists is judged by whether it could be opened.
from_path_OpensFirst(f, path) ==
  IF open(f, path).tag # "FileInaccessible"
  THEN Exists(path, open(f, path)) ELSE DoesNotExist(path)

\* ConfigData::from_path.
from_path(f, path) ==
  IF exists(f, path) THEN Exists(path, open(f, path)) ELSE DoesNotExist(path)

\* The messages of setup and setup_replace_invalid, as their segments.
MsgCannotSave(path, e) ==
  <<"Cannot save ", display(path), " as Config file: ", e>>
\* A slip: the message leaves the cause out.
MsgCannotAccess_NoCause(path, e) ==
  <<"Cannot access ", display(path), " as Config file: ", "">>

MsgCannotAccess(path, e) ==
  <<"Cannot access ", display(path), " as Config file: ", e>>
\* A slip: the message leaves the path out.
MsgCannotRead_NoPath(path, e) == <<"Cannot read Config file: ", e>>

MsgCannotRead(path, e) ==
  <<"Cannot read ", display(path), " as Config file: ", e>>
MsgCreated(path) == <<"Created new Config file: ", display(path)>>
MsgExisting(path) == <<"Using existing Config file: ", display(path)>>
MsgNoPath == <<"Cannot find path for Config file.">>

\* ConfigData::setup: [fs, res].
setup(f, qualifier, organization, application, file) ==
  LET found == find(f, qualifier, organization, application, file)
  IN  IF found.tag = "DoesNotExist"
      THEN LET path == Unwrap(found.path)
               made == create(f, path, TRUE, TRUE)
           IN  IF made.err # IoOk
               THEN [fs |-> made.fs, res |-> Err(MsgCannotSave(path, made.err))]
               ELSE LET o == open(made.fs, path)
                    IN  [fs |-> made.fs,
                         res |-> IF o.tag = "FileInaccessible"
                                 THEN Err(MsgCannotAccess(path, o.err))
                                 ELSE IF o.tag = "FileInvalid"
                                 THEN Err(MsgCannotRead(path, o.err))
                                 ELSE Ok(MsgCreated(path), with_path(o.cfg, path))]
      ELSE IF found.tag = "Exists"
      THEN LET path == Unwrap(found.path)
               o == found.open
           IN  [fs |-> f,
                res |-> IF o.tag = "FileInaccessible"
                        THEN Err(MsgCannotAccess(path, o.err))
                        ELSE IF o.tag = "FileInvalid"
                        THEN Err(MsgCannotRead(path, o.err))
                        ELSE Ok(MsgExisting(path), with_path(o.cfg, path))]
      ELSE [fs |-> f, res |-> Err(MsgNoPath)]

\* A slip: an invalid file is reported, as setup does, instead of replaced.
setup_replace_invalid_KeepsInvalid(f, qualifier, organization, application, file) ==
  [fs |-> setup(f, qualifier, organization, application, file).fs,
   res |-> setup(f, qualifier, organization, application, file).res,
   panic |-> FALSE]

\* A slip: the general Exists arm is written before the arm for an invalid
\* file, so that it takes the invalid file too.
setup_replace_invalid_ArmsSwapped(f, qualifier, organization, application, file) ==
  LET found == find(f, qualifier, organization, application, file)
      s == setup(f, qualifier, organization, application, file)
  IN  IF found.tag = "Exists" /\ found.open.tag = "FileInvalid"
      THEN [fs |-> f, res |-> Err(<<"unreachable">>), panic |-> TRUE]
      ELSE [fs |-> s.fs, res |-> s.res, panic |-> FALSE]

\* ConfigData::setup_replace_invalid: [fs, res, panic].
setup_replace_invalid(f, qualifier, organization, application, file) ==
  LET found == find(f, qualifier, organization, application, file)
  IN  IF \/ found.tag = "Exists" /\ found.open.tag = "FileInvalid"
         \/ found.tag = "DoesNotExist"
      THEN LET path == Unwrap(found.path)
               made == create(f, path, TRUE, TRUE)
           IN  IF made.err # IoOk
               THEN [fs |-> made.fs, res |-> Err(MsgCannotSave(path, made.err)),
                     panic |-> FALSE]
               ELSE LET o == open(made.fs, path)
                    IN  [fs |-> made.fs,
                         res |-> IF o.tag = "FileInaccessible"
                                 THEN Err(MsgCannotAccess(path, o.err))
                                 ELSE IF o.tag = "FileInvalid"
                                 THEN Err(MsgCannotRead(path, o.err))
                                 ELSE Ok(MsgCreated(path), with_path(o.cfg, path)),
                         panic |-> FALSE]
      ELSE IF found.tag = "Exists"
      THEN LET path == Unwrap(found.path)
               o == found.open
           IN  [fs |-> f,
                res |-> IF o.tag = "FileInaccessible"
                        THEN Err(MsgCannotAccess(path, o.err))
                        ELSE IF o.tag = "FileInvalid"
                        THEN Err(<<"unreachable">>)
                        ELSE Ok(MsgExisting(path), with_path(o.cfg, path)),
                panic |-> (o.tag = "FileInvalid")]
      ELSE [fs |-> f, res |-> Err(MsgNoPath), panic |-> FALSE]

\* ------------------------------------------------------------- ConfigFile
\* A slip: the record is taken out of the handle before the file is read.
reload_Clobbers(f, handle) ==
  LET o == open(f, handle.path)
  IN  IF o.tag = "FileValid"
      THEN [cf |-> [handle EXCEPT !.data = o.cfg],
            res |-> [ok |-> TRUE, err |-> NoOpen]]
      ELSE [cf |-> [handle EXCEPT !.data = "a"], res |-> [ok |-> FALSE, err |-> o]]

\* A slip: reload reads the backup file instead of the bound path.
reload_ReadsBackup(f, handle) ==
  LET b == get_backup(handle.path)
      o == open(f, IF IsSome(b) THEN Unwrap(b) ELSE handle.path)
  IN  IF o.tag = "FileValid"
      THEN [cf |-> [handle EXCEPT !.data = o.cfg],
            res |-> [ok |-> TRUE, err |-> NoOpen]]
      ELSE [cf |-> handle, res |-> [ok |-> FALSE, err |-> o]]

\* ConfigFile::reload: [cf, res] with res a Result<(), ConfigOpen>.
reload(f, handle) ==
  LET o == open(f, handle.path)
  IN  IF o.tag = "FileValid"
      THEN [cf |-> [handle EXCEPT !.data = o.cfg],
            res |-> [ok |-> TRUE, err |-> NoOpen]]
      ELSE [cf |-> handle, res |-> [ok |-> FALSE, err |-> o]]

SaveOk == [ok |-> TRUE, kind |-> "", err |-> ""]
SaveErr(kind, e) == [ok |-> FALSE, kind |-> kind, err |-> e]

Saved(fs2, res, branch, steps) ==
  [fs |-> fs2, res |-> res, branch |-> branch, steps |-> steps]

\* A slip: the old file is overwritten without being moved aside.
save_NoBackup(f, handle, create_backup, create_parent) ==
  LET serial == to_string(handle.data)
      w == write_file(f, handle.path, serial.text)
  IN  IF ~serial.ok
      THEN Saved(f, SaveErr("SerializeFailure", serial.err), "none",
                 <<Step("to_string", serial.err)>>)
      ELSE IF w.err # IoOk
      THEN Saved(w.fs, SaveErr("FileInaccessible", w.err), "none",
                 <<Step("to_string", ""), Step("write", w.err)>>)
      ELSE Saved(w.fs, SaveOk, "none",
                 <<Step("to_string", ""), Step("write", IoOk)>>)

\* A slip: save writes DEFAULT, as create does, instead of the record.
save_WritesDefault(f, handle, create_backup, create_parent) ==
  LET made == create(f, handle.path, create_backup, create_parent)
  IN  IF ~to_string(handle.data).ok
      THEN Saved(f, SaveErr("SerializeFailure", to_string(handle.data).err),
                 made.branch, made.steps)
      ELSE IF made.err # IoOk
      THEN Saved(made.fs, SaveErr("FileInaccessible", made.err),
                 made.branch, made.steps)
      ELSE Saved(made.fs, SaveOk, made.branch, made.steps)

\* A slip: the file is created, and so truncated, before the record is
\* serialized.
save_TruncatesFirst(f, handle, create_backup, create_parent) ==
  LET serial == to_string(handle.data)
      w0 == write_file(f, handle.path, NoText)
      w == write_file(w0.fs, handle.path, serial.text)
  IN  IF w0.err # IoOk
      THEN Saved(w0.fs, SaveErr("FileInaccessible", w0.err), "none",
                 <<Step("write", w0.err)>>)
      ELSE IF ~serial.ok
      THEN Saved(w0.fs, SaveErr("SerializeFailure", serial.err), "none",
                 <<Step("write", IoOk), Step("to_string", serial.err)>>)
      ELSE Saved(w.fs, SaveOk, "none",
                 <<Step("write", IoOk), Step("to_string", "")>>)

\* ConfigFile::save: [fs, res, branch, steps] with res a
\* Result<(), ConfigSaveError>.
save(f, handle, create_backup, create_parent) ==
  LET data == handle.data
      path == handle.path
      pre ==
        IF create_backup /\ exists(f, path)
        THEN IF IsSome(get_backup(path))
             THEN LET rn == rename(f, path, Unwrap(get_backup(path)))
                  IN  Done(rn.fs, IoOk, "backup", <<Step("rename", rn.err)>>)
             ELSE Done(f, IoOk, "backup", <<>>)
        ELSE IF create_parent
             THEN IF IsSome(parent(path))
                  THEN IF ~exists(f, Unwrap(parent(path)))
                       THEN LET mk == create_dir_all(f, Unwrap(parent(path)))
                            IN  Done(mk.fs, mk.err, "parent",
                                     <<Step("create_dir_all", mk.err)>>)
                       ELSE Done(f, IoOk, "parent", <<>>)
                  ELSE Done(f, IoOk, "parent", <<>>)
             ELSE Done(f, IoOk, "none", <<>>)
  IN  IF pre.err # IoOk
      THEN Saved(pre.fs, SaveErr("FileInaccessible", pre.err), pre.branch,
                 pre.steps)
      ELSE LET serial == to_string(data)
               tried == pre.steps \o <<Step("to_string", serial.err)>>
           IN  IF ~serial.ok
               THEN Saved(pre.fs, SaveErr("SerializeFailure", serial.err),
                          pre.branch, tried)
               ELSE LET w == write_file(pre.fs, path, serial.text)
                    IN  Saved(w.fs,
                              IF w.err # IoOk
                              THEN SaveErr("FileInaccessible", w.err)
                              ELSE SaveOk,
                              pre.branch, tried \o <<Step("write", w.err)>>)

\* ------------------------------------------------------------------- steps
\* A fresh machine: the configuration home exists and is empty.
InitFs ==
  [p \in Paths |->
     IF p = Root THEN Dir(FALSE)
     ELSE IF p = Base THEN Dir(TRUE)
     ELSE Absent]

NoCall == [op |-> "none", args |-> <<>>, res |-> <<>>]

Init ==
  /\ fs = InitFs
  /\ \E t \in RecordTypes :
       /\ hook = t.hook
       /\ dflt = t.dflt
       /\ home \in (IF t.dflt = TxtUpper /\ t.hook = "identity"
                    THEN BOOLEAN ELSE {TRUE})
  /\ cf = NoneV
  /\ last = [op |-> "none", args |-> <<>>, res |-> <<>>, saw |-> <<>>,
             panic |-> FALSE]
  /\ prev = NoCall
  /\ touched = FALSE
  /\ calls = 0
  /\ envs = 0

\* The pairs of calls of which the second follows up on the first: a call
\* repeated, a saved record loaded again.
FollowUps ==
  {<<"find", "find">>, <<"setup", "setup">>, <<"save", "reload">>,
   <<"create", "create">>}

\* One library call: its record (saw: what the call found where it looked)
\* and the state it leaves.  prev keeps the call before it when this one
\* follows up on it and nothing changed the filesystem in between.
Call(op, args, res, saw, f2, cf2, pan) ==
  /\ calls + envs < MaxSteps
  /\ ~last.panic
  /\ calls' = calls + 1
  /\ prev' = IF ~touched /\ <<last.op, op>> \in FollowUps
             THEN [op |-> last.op, args |-> last.args, res |-> last.res]
             ELSE NoCall
  /\ last' = [op |-> op, args |-> args, res |-> res, saw |-> saw, panic |-> pan]
  /\ fs' = f2
  /\ cf' = cf2
  /\ touched' = FALSE
  /\ UNCHANGED <<home, hook, dflt, envs>>

\* The nodes at a path and at its backup path.
Saw(f, path) ==
  [node |-> f[path],
   bak |-> IF IsSome(get_backup(path)) THEN f[Unwrap(get_backup(path))]
           ELSE Absent]

\* The same for create and save, with the node at the parent, the branch
\* entered and the steps done.
SawDone(f, path, r) ==
  [node |-> f[path],
   bak |-> IF IsSome(get_backup(path)) THEN f[Unwrap(get_backup(path))]
           ELSE Absent,
   par |-> IF IsSome(parent(path)) THEN f[Unwrap(parent(path))] ELSE Absent,
   branch |-> r.branch,
   steps |-> r.steps]

\* A slip: find writes the default file where it finds none.
CallFind_Creates ==
  \E a \in Args :
    LET r == find(fs, a[1], a[2], a[3], a[4])
    IN  Call("find", a, r, r,
             IF r.tag = "DoesNotExist"
             THEN create(fs, Unwrap(r.path), TRUE, TRUE).fs ELSE fs,
             cf, FALSE)

CallFind ==
  \E a \in Args :
    LET r == find(fs, a[1], a[2], a[3], a[4])
    IN  Call("find", a, r, r, fs, cf, FALSE)

CallFromPath ==
  \E p \in ArgPaths :
    Call("from_path", <<p>>, from_path(fs, p), Saw(fs, p), fs, cf, FALSE)

CallOpen ==
  \E p \in ArgPaths :
    Call("open", <<p>>, open(fs, p), Saw(fs, p), fs, cf, FALSE)

CallDefault == Call("default", <<>>, default, <<>>, fs, cf, FALSE)

CallCreate ==
  \E p \in ArgPaths, cb \in BOOLEAN, cp \in BOOLEAN :
    LET r == create(fs, p, cb, cp)
    IN  Call("create", <<p, cb, cp>>, r.err, SawDone(fs, p, r), r.fs, cf, FALSE)

\* A slip: setup writes a new default file over one it could not load.
CallSetup_Recreates ==
  \E a \in Args :
    LET r == setup(fs, a[1], a[2], a[3], a[4])
        found == find(fs, a[1], a[2], a[3], a[4])
    IN  Call("setup", a, r.res, found,
             IF found.tag = "Exists" /\ found.open.tag # "FileValid"
             THEN create(r.fs, Unwrap(found.path), TRUE, TRUE).fs ELSE r.fs,
             IF r.res.ok THEN r.res.cf ELSE cf, FALSE)

CallSetup ==
  \E a \in Args :
    LET r == setup(fs, a[1], a[2], a[3], a[4])
    IN  Call("setup", a, r.res, find(fs, a[1], a[2], a[3], a[4]), r.fs,
             IF r.res.ok THEN r.res.cf ELSE cf, FALSE)

CallSetupReplaceInvalid ==
  \E a \in Args :
    LET r == setup_replace_invalid(fs, a[1], a[2], a[3], a[4])
    IN  Call("setup_replace_invalid", a, r.res,
             find(fs, a[1], a[2], a[3], a[4]), r.fs,
             IF r.res.ok THEN r.res.cf ELSE cf, r.panic)

\* The application binds a record of its own to a path of its own.
CallWithPath ==
  \E d \in Recs, p \in HandlePaths :
    Call("with_path", <<d, p>>, with_path(d, p), <<>>, fs,
         Some(with_path(d, p)), FALSE)

\* The application changes the record through DerefMut.
CallDerefMut ==
  /\ IsSome(cf)
  /\ \E d \in Recs :
       Call("deref_mut", <<d>>, d, <<>>, fs,
            Some([Unwrap(cf) EXCEPT !.data = d]), FALSE)

CallReload ==
  /\ IsSome(cf)
  /\ LET r == reload(fs, Unwrap(cf))
     IN  Call("reload", <<>>, r.res, Unwrap(cf), fs, Some(r.cf), FALSE)

CallSave ==
  /\ IsSome(cf)
  /\ \E cb \in BOOLEAN, cp \in BOOLEAN :
       LET r == save(fs, Unwrap(cf), cb, cp)
       IN  Call("save", <<cb, cp>>, r.res,
                SawDone(fs, Unwrap(cf).path, r), r.fs, cf, FALSE)

\* Another program changes the filesystem between two library calls.
Env(f2) ==
  /\ calls + envs < MaxSteps
  /\ f2 # fs
  /\ envs' = envs + 1
  /\ fs' = f2
  /\ touched' = TRUE
  /\ UNCHANGED <<home, hook, dflt, cf, last, prev, calls>>

IsPrefix(a, b) == Len(a) <= Len(b) /\ SubSeq(b, 1, Len(a)) = a

EnvWrite ==
  \E p \in FilePaths, t \in Texts :
    /\ exists(fs, Unwrap(parent(p)))
    /\ fs[p].kind # "dir"
    /\ Env([fs EXCEPT ![p] = RegFile(t, TRUE)])

EnvChmod ==
  \E p \in DirPaths \cup MainPaths :
    /\ exists(fs, p)
    /\ Env([fs EXCEPT ![p].perm = ~fs[p].perm])

EnvRemove ==
  \E p \in ProjectDirsAll \cup MainPaths :
    /\ exists(fs, p)
    /\ Env([q \in Paths |-> IF IsPrefix(p, q) THEN Absent ELSE fs[q]])

EnvMkdir ==
  \E p \in DirPaths \cup MainPaths :
    /\ ~exists(fs, p)
    /\ exists(fs, Unwrap(parent(p)))
    /\ Env([fs EXCEPT ![p] = Dir(TRUE)])

Next ==
  \/ CallFind
  \/ CallFromPath
  \/ CallOpen
  \/ CallDefault
  \/ CallCreate
  \/ CallSetup
  \/ CallSetupReplaceInvalid
  \/ CallWithPath
  \/ CallDerefMut
  \/ CallReload
  \/ CallSave
  \/ EnvWrite
  \/ EnvChmod
  \/ EnvRemove
  \/ EnvMkdir

Spec == Init /\ [][Next]_vars

\* ------------------------------------------------- get_backup on its own
\* The components of the paths handed to get_backup: a directory, two file
\* names of which one already carries the prefix, and the parent link.
Names == {"d", "x", PREFIX \o "x", ".."}
PathPool == UNION {[1..n -> Names] : n \in 0..MaxPathLen}

InitBackup ==
  /\ fs = InitFs
  /\ home = TRUE
  /\ hook = "identity"
  /\ dflt = TxtUpper
  /\ cf = NoneV
  /\ \E a \in PathPool, b \in PathPool :
       last = [op |-> "paths", args |-> <<a, b>>, res |-> <<>>, saw |-> <<>>,
               panic |-> FALSE]
  /\ prev = NoCall
  /\ touched = FALSE
  /\ calls = 0
  /\ envs = 0

\* get_backup applied to each of the two paths.
ApplyGetBackup ==
  /\ last.op = "paths"
  /\ last' = [last EXCEPT !.op = "get_backup",
                          !.res = <<get_backup(last.args[1]),
                                    get_backup(last.args[2])>>]
  /\ calls' = calls + 1
  /\ UNCHANGED <<fs, home, hook, dflt, cf, prev, touched, envs>>

NextBackup == ApplyGetBackup

SpecBackup == InitBackup /\ [][NextBackup]_vars

\* ------------------------------------------------------------------ claims
IoErrors ==
  {"NotFound", "PermissionDenied", "IsADirectory", "NotADirectory",
   "InvalidData", "AlreadyExists"}

Contains(msg, seg) == \E i \in DOMAIN msg : msg[i] = seg
SaysCreated(res) == res.ok /\ res.msg[1] = "Created new Config file: "
SaysExisting(res) == res.ok /\ res.msg[1] = "Using existing Config file: "

\* The second half of C1: a setup repeated right after one that created the
\* file finds the file and delivers an equal record.
SetupAgain ==
  (/\ last.op = "setup"
   /\ prev.op = "setup"
   /\ prev.args = last.args
   /\ SaysCreated(prev.res))
  => /\ SaysExisting(last.res)
     /\ Unwrap(last.res.cf).data = Unwrap(prev.res.cf).data

\* C1 as stated: where the path resolves and nothing exists there, setup
\* succeeds with "Created new" and a handle on the resolved path, and a
\* repeated setup then says "Using existing" with an equal record.
C1_AsStated ==
  /\ (last.op = "setup" /\ last.saw.tag = "DoesNotExist")
     => /\ SaysCreated(last.res)
        /\ Unwrap(last.res.cf).path = Unwrap(last.saw.path)
  /\ SetupAgain

\* C1, amended: where the path resolves and nothing exists there, setup
\* succeeds exactly when the default file was written and DEFAULT parses, and
\* then says "Created new" with a handle on the resolved path; otherwise it
\* returns a failure message.  A repeated setup after a "Created new" says
\* "Using existing" with an equal record.
C1_SetupCreatesThenReuses ==
  /\ (last.op = "setup" /\ last.saw.tag = "DoesNotExist")
     => /\ last.res.ok
           => /\ SaysCreated(last.res)
              /\ Unwrap(last.res.cf).path = Unwrap(last.saw.path)
              /\ cf = last.res.cf
        /\ ~last.res.ok => last.res.cf = NoneV
        /\ ~touched
           => (last.res.ok
               <=> /\ fs[Unwrap(last.saw.path)] = RegFile(dflt, TRUE)
                   /\ from_str(dflt).ok)
  /\ SetupAgain

C1_Witness ==
  /\ last.op = "setup"
  /\ prev.op = "setup"
  /\ prev.args = last.args
  /\ SaysCreated(prev.res)
  /\ SaysExisting(last.res)
  /\ Unwrap(prev.res.cf).path = find_path(home, last.args[1], last.args[2],
                                          last.args[3], last.args[4])[1]

SawInvalid == last.saw.tag = "Exists" /\ last.saw.open.tag = "FileInvalid"

\* The first half of C2: setup on an unparsable file fails with a message
\* that holds the path and the parse error.
SetupReportsInvalid ==
  (last.op = "setup" /\ SawInvalid)
  => /\ ~last.res.ok
     /\ last.res.msg[1] = "Cannot read "
     /\ Contains(last.res.msg, display(Unwrap(last.saw.path)))
     /\ Contains(last.res.msg, last.saw.open.err)
     /\ last.saw.open.err = "TomlDeError"

\* C2 as stated: on an unparsable file setup fails with the path and a parse
\* failure, and setup_replace_invalid succeeds with "Created new" and the
\* record parsed from DEFAULT.
C2_AsStated ==
  /\ SetupReportsInvalid
  /\ (last.op = "setup_replace_invalid" /\ SawInvalid)
     => /\ SaysCreated(last.res)
        /\ Unwrap(last.res.cf).data = prepare(hook, from_str(dflt).cfg)

\* C2, amended: on an unparsable file setup fails with the path and a parse
\* failure; setup_replace_invalid succeeds exactly when the default file was
\* written in its place and DEFAULT parses, then saying "Created new" with
\* the record parsed from DEFAULT, and returns a failure message otherwise.
C2_InvalidReportedOrReplaced ==
  /\ SetupReportsInvalid
  /\ (last.op = "setup_replace_invalid" /\ SawInvalid)
     => /\ last.res.ok
           => /\ SaysCreated(last.res)
              /\ from_str(dflt).ok
              /\ Unwrap(last.res.cf).data = prepare(hook, from_str(dflt).cfg)
              /\ Unwrap(last.res.cf).path = Unwrap(last.saw.path)
        /\ ~last.res.ok
           => last.res.msg[1] \in {"Cannot save ", "Cannot access ", "Cannot read "}
        /\ ~touched
           => (last.res.ok
               <=> /\ fs[Unwrap(last.saw.path)] = RegFile(dflt, TRUE)
                   /\ from_str(dflt).ok)

C2_Witness ==
  /\ last.op = "setup_replace_invalid"
  /\ SawInvalid
  /\ SaysCreated(last.res)
  /\ Unwrap(last.res.cf).data = prepare(hook, from_str(dflt).cfg)
  /\ ~touched
  /\ fs[Unwrap(get_backup(Unwrap(last.saw.path)))].kind = "file"
  /\ ~from_str(fs[Unwrap(get_backup(Unwrap(last.saw.path)))].text).ok

\* What setup and setup_replace_invalid may deliver: a success message with a
\* handle on the located path whose record is the one the file there parses
\* to, or a failure message with the path and the cause.
ValidHandle(res) ==
  /\ res.ok
  /\ res.msg[1] \in {"Created new Config file: ", "Using existing Config file: "}
  /\ res.msg[2] = display(Unwrap(last.saw.path))
  /\ IsSome(res.cf)
  /\ cf = res.cf
  /\ Unwrap(res.cf).path = Unwrap(last.saw.path)
  /\ Unwrap(res.cf).data \in {"a", "A"}
  /\ ~touched
     => /\ fs[Unwrap(last.saw.path)].kind = "file"
        /\ from_str(fs[Unwrap(last.saw.path)].text).ok
        /\ Unwrap(res.cf).data
             = prepare(hook, from_str(fs[Unwrap(last.saw.path)].text).cfg)

FailureWithPathAndCause(res) ==
  /\ ~res.ok
  /\ res.cf = NoneV
  /\ Len(res.msg) = 4
  /\ res.msg[2] = display(Unwrap(last.saw.path))
  /\ \/ res.msg[1] = "Cannot save " /\ res.msg[4] \in IoErrors
     \/ res.msg[1] = "Cannot access " /\ res.msg[4] \in IoErrors
     \/ res.msg[1] = "Cannot read " /\ res.msg[4] = "TomlDeError"

\* C3 as stated: every setup or setup_replace_invalid ends with a valid bound
\* handle or with a failure message, and every failure message holds the path
\* and the cause.
C3_AsStated ==
  last.op \in {"setup", "setup_replace_invalid"}
  => /\ ~last.panic
     /\ last.saw.tag # "NoPath"
     /\ ValidHandle(last.res) \/ FailureWithPathAndCause(last.res)

\* C3, amended: every setup or setup_replace_invalid ends with a valid bound
\* handle or with a failure message; the failure message holds the path and
\* the cause, except that when no path could be resolved it says just that
\* and holds no path.
C3_HandleOrFailure ==
  last.op \in {"setup", "setup_replace_invalid"}
  => /\ ~last.panic
     /\ IF last.saw.tag = "NoPath"
        THEN ~last.res.ok /\ last.res.cf = NoneV /\ last.res.msg = MsgNoPath
        ELSE ValidHandle(last.res) \/ FailureWithPathAndCause(last.res)

C3_Witness ==
  /\ last.op = "setup"
  /\ last.saw.tag = "Exists"
  /\ last.saw.open.tag = "FileInaccessible"
  /\ FailureWithPathAndCause(last.res)
  /\ last.res.msg[4] = "InvalidData"

\* What create(path, true, true) followed by open(path) comes to, as the
\* Missing arm of setup reports it.
CreatedAndReopened(f, path) ==
  LET made == create(f, path, TRUE, TRUE)
      o == open(made.fs, path)
  IN  [fs |-> made.fs,
       res |-> IF made.err # IoOk THEN Err(MsgCannotSave(path, made.err))
               ELSE IF o.tag = "FileInaccessible" THEN Err(MsgCannotAccess(path, o.err))
               ELSE IF o.tag = "FileInvalid" THEN Err(MsgCannotRead(path, o.err))
               ELSE Ok(MsgCreated(path), with_path(o.cfg, path))]

\* C4: from one filesystem and with the same arguments, setup and
\* setup_replace_invalid give the same result and leave the same filesystem,
\* unless an unparsable file is found; then setup_replace_invalid does what
\* setup does for a missing file: create with backup, then open again.
C4_VariantsDifferOnInvalidOnly ==
  \A a \in Args :
    LET found == find(fs, a[1], a[2], a[3], a[4])
        s == setup(fs, a[1], a[2], a[3], a[4])
        r == setup_replace_invalid(fs, a[1], a[2], a[3], a[4])
    IN  /\ ~r.panic
        /\ IF found.tag = "Exists" /\ found.open.tag = "FileInvalid"
           THEN /\ r.fs = CreatedAndReopened(fs, Unwrap(found.path)).fs
                /\ r.res = CreatedAndReopened(fs, Unwrap(found.path)).res
                /\ ~s.res.ok
                /\ s.fs = fs
           ELSE r.fs = s.fs /\ r.res = s.res
        /\ found.tag = "DoesNotExist"
           => /\ s.fs = CreatedAndReopened(fs, Unwrap(found.path)).fs
              /\ s.res = CreatedAndReopened(fs, Unwrap(found.path)).res

C4_Witness ==
  /\ last.op = "setup_replace_invalid"
  /\ SawInvalid
  /\ ~touched
  /\ SaysCreated(last.res)
  /\ fs[Unwrap(last.saw.path)] = RegFile(dflt, TRUE)
  /\ fs[Unwrap(get_backup(Unwrap(last.saw.path)))].text = TxtBroken
  /\ setup(fs, last.args[1], last.args[2], last.args[3], last.args[4]).res
       = setup_replace_invalid(fs, last.args[1], last.args[2], last.args[3],
                               last.args[4]).res

\* C5: reload opens the bound path again; on Valid the handle takes the new
\* record and reload succeeds; on Inaccessible or Invalid reload returns that
\* outcome as the error and the handle keeps the record it had.
C5_ReloadKeepsLastGood ==
  last.op = "reload"
  => /\ IsSome(cf)
     /\ Unwrap(cf).path = last.saw.path
     /\ ~last.res.ok
        => /\ Unwrap(cf).data = last.saw.data
           /\ last.res.err.tag \in {"FileInaccessible", "FileInvalid"}
     /\ ~touched
        => LET rd == read_file(fs, last.saw.path)
           IN  IF rd.err # IoOk
               THEN ~last.res.ok /\ last.res.err = FileInaccessible(rd.err)
               ELSE IF ~from_str(rd.data).ok
               THEN ~last.res.ok
                    /\ last.res.err = FileInvalid(from_str(rd.data).err)
               ELSE /\ last.res.ok
                    /\ Unwrap(cf).data = prepare(hook, from_str(rd.data).cfg)

C5_Witness ==
  /\ last.op = "reload"
  /\ ~last.res.ok
  /\ last.res.err.tag = "FileInvalid"
  /\ Unwrap(cf).data = last.saw.data
  /\ Unwrap(cf).data \in {"a", "A"}

\* A save with create_backup set, on a handle whose path held a file.
SavedOverFile ==
  /\ last.op = "save"
  /\ last.args[1]
  /\ last.saw.node.kind = "file"
  /\ ~touched

BoundPath == Unwrap(cf).path
BackupOfBound == Unwrap(get_backup(BoundPath))

\* The rename of the bound path's file to the backup path can succeed: the
\* directory is writable and no directory sits at the backup path.
RenameCould ==
  fs[Unwrap(parent(BoundPath))].perm /\ last.saw.bak.kind # "dir"

\* C6 as stated: after save with create_backup on a handle whose path held a
\* file, the backup path holds the prior content and the bound path holds the
\* newly serialized record.
C6_AsStated ==
  SavedOverFile
  => /\ fs[BackupOfBound].kind = "file"
     /\ fs[BackupOfBound].text = last.saw.node.text
     /\ fs[BoundPath].kind = "file"
     /\ fs[BoundPath].text = to_string(Unwrap(cf).data).text

\* C6, amended: after save with create_backup on a handle whose path held a
\* file, the backup path holds the prior content if the rename could succeed
\* (and is left as it was if not), and the bound path holds the newly
\* serialized record if save returned success.
C6_SaveBacksUpBestEffort ==
  SavedOverFile
  => /\ RenameCould => fs[BackupOfBound] = last.saw.node
     /\ ~RenameCould => fs[BackupOfBound] = last.saw.bak
     /\ last.res.ok
        => /\ to_string(Unwrap(cf).data).ok
           /\ fs[BoundPath] = RegFile(to_string(Unwrap(cf).data).text, TRUE)

C6_Witness ==
  /\ SavedOverFile
  /\ last.res.ok
  /\ fs[BackupOfBound].kind = "file"
  /\ fs[BackupOfBound].text = last.saw.node.text
  /\ fs[BoundPath].text = to_string(Unwrap(cf).data).text
  /\ fs[BoundPath].text # fs[BackupOfBound].text

\* A reload right after a successful save of a record that the codec takes
\* through encode and decode unchanged.
ReloadedAfterSave ==
  /\ prev.op = "save"
  /\ prev.res.ok
  /\ last.op = "reload"
  /\ to_string(last.saw.data).ok
  /\ from_str(to_string(last.saw.data).text).ok
  /\ from_str(to_string(last.saw.data).text).cfg = last.saw.data

\* C7 as stated: save, then reload, leaves the handle with the saved record.
C7_AsStated ==
  ReloadedAfterSave
  => /\ last.res.ok
     /\ Unwrap(cf).data = last.saw.data

\* C7, amended: save, then reload, leaves the handle with the saved record as
\* prepare turns it out; that is the saved record itself when prepare leaves
\* it unchanged (as the default prepare does).
C7_RoundTripUpToPrepare ==
  ReloadedAfterSave
  => /\ last.res.ok
     /\ Unwrap(cf).data = prepare(hook, last.saw.data)
     /\ prepare(hook, last.saw.data) = last.saw.data
        => Unwrap(cf).data = last.saw.data

C7_Witness ==
  /\ ReloadedAfterSave
  /\ last.res.ok
  /\ last.saw.data = "A"
  /\ Unwrap(cf).data = "A"
  /\ fs[BoundPath].text = to_string("A").text

\* C8: open on a path where nothing exists yields Inaccessible.
C8_OpenMissingIsInaccessible ==
  /\ \A p \in Paths : ~exists(fs, p) => open(fs, p).tag = "FileInaccessible"
  /\ (last.op = "open" /\ last.saw.node.kind = "none")
     => last.res = FileInaccessible("NotFound")

C8_Witness ==
  /\ last.op = "open"
  /\ last.saw.node.kind = "none"
  /\ last.res.tag = "FileInaccessible"

\* A file whose content does not parse.
Malformed(node) == node.kind = "file" /\ ~from_str(node.text).ok

\* C9 as stated: open on a file with malformed content yields Invalid.
C9_AsStated ==
  /\ \A p \in Paths : Malformed(fs[p]) => open(fs, p).tag = "FileInvalid"
  /\ (last.op = "open" /\ Malformed(last.saw.node))
     => last.res.tag = "FileInvalid"

\* C9, amended: open on a file with malformed content never yields Valid; it
\* yields Invalid when the file can be read as UTF-8 text, and Inaccessible
\* when it cannot.
C9_OpenMalformedNeverValid ==
  /\ \A p \in Paths :
       Malformed(fs[p])
       => /\ open(fs, p).tag # "FileValid"
          /\ open(fs, p).tag = "FileInvalid"
             <=> (fs[p].perm /\ IsUtf8(fs[p].text))
  /\ (last.op = "open" /\ Malformed(last.saw.node))
     => /\ last.res.tag # "FileValid"
        /\ last.res.tag = "FileInvalid"
           <=> (last.saw.node.perm /\ IsUtf8(last.saw.node.text))

C9_Witness ==
  /\ last.op = "open"
  /\ last.saw.node = RegFile(TxtBroken, TRUE)
  /\ last.res = FileInvalid("TomlDeError")

\* C10: find changes nothing in the filesystem, and a find repeated with the
\* same arguments, nothing having changed the filesystem in between, gives
\* the same classification, path and open outcome.
C10_FindRepeatable ==
  [][(calls' = calls + 1 /\ last'.op = "find")
     => /\ fs' = fs
        /\ (last.op = "find" /\ last.args = last'.args /\ ~touched)
           => last'.res = last.res]_vars

C10_Witness ==
  /\ last.op = "find"
  /\ prev.op = "find"
  /\ prev.args = last.args
  /\ prev.res = last.res
  /\ last.res.tag = "Exists"
  /\ last.res.open.tag = "FileValid"

\* A create without backup and without parent creation, on a path whose
\* parent directory exists, nothing having changed the filesystem since.
PlainCreate ==
  /\ last.op = "create"
  /\ ~last.args[2]
  /\ ~last.args[3]
  /\ ~touched
  /\ exists(fs, Unwrap(parent(last.args[1])))

NoFileName(path) == path = Root \/ path[Len(path)] = ".."

\* C12: get_backup returns None exactly for a path without a file name
\* component; for any other path it returns the path with the same parent
\* whose file name is PREFIX followed by the old file name; equal paths get
\* equal backups, and two different paths with file names and the same parent
\* get different backups.
C12_BackupPath ==
  last.op = "get_backup"
  => LET a == last.args[1]
         b == last.args[2]
         ra == last.res[1]
         rb == last.res[2]
     IN  /\ ra = NoneV <=> NoFileName(a)
         /\ ~NoFileName(a)
            => /\ Len(ra) = 1
               /\ parent(Unwrap(ra)) = parent(a)
               /\ Unwrap(ra)[Len(a)] = PREFIX \o a[Len(a)]
               /\ Len(Unwrap(ra)) = Len(a)
         /\ a = b => ra = rb
         /\ (a # b /\ ~NoFileName(a) /\ ~NoFileName(b) /\ parent(a) = parent(b))
            => ra # rb

C12_Witness ==
  /\ last.op = "get_backup"
  /\ last.args = << <<"d", "x">>, <<"d", PREFIX \o "x">> >>
  /\ last.res[1] = Some(<<"d", ".bkp.x">>)
  /\ last.res[2] = Some(<<"d", ".bkp..bkp.x">>)

\* C13: a handle's path is fixed when the handle is made.  A reload or a save
\* leaves the path of the handle as it was.  A reload changes nothing in the
\* filesystem and its outcome is that of opening the bound path.  A save puts
\* the serialized record at the bound path and nowhere else: whatever else it
\* changes is the backup path, which takes the old file of the bound path, or
\* a missing directory above the bound path.
C13_PathFixed ==
  [][(calls' = calls + 1 /\ last'.op \in {"reload", "save"})
     => LET path == Unwrap(cf).path
            o == open(fs, path)
        IN  /\ IsSome(cf')
            /\ Unwrap(cf').path = path
            /\ last'.op = "reload"
               => /\ fs' = fs
                  /\ last'.res.ok <=> o.tag = "FileValid"
                  /\ last'.res.ok => Unwrap(cf').data = o.cfg
                  /\ ~last'.res.ok => last'.res.err = o
            /\ last'.op = "save"
               => /\ cf' = cf
                  /\ last'.res.ok
                     => fs'[path] = RegFile(to_string(Unwrap(cf).data).text, TRUE)
                  /\ \A q \in Paths \ {path} :
                       fs'[q] # fs[q]
                       => \/ /\ get_backup(path) = Some(q)
                             /\ fs'[q] = fs[path]
                          \/ /\ IsPrefix(q, path)
                             /\ fs[q] = Absent
                             /\ fs'[q] = Dir(TRUE)]_vars

C13_Witness ==
  /\ last.op = "reload"
  /\ prev.op = "save"
  /\ prev.res.ok
  /\ last.res.ok
  /\ Unwrap(cf).path = last.saw.path
  /\ Unwrap(cf).path \in MainPaths
  /\ fs[Unwrap(cf).path].kind = "file"
  /\ ~exists(fs, Unwrap(get_backup(Unwrap(cf).path)))

\* The record that one parse of a text followed by one application of
\* prepare gives.
PreparedOnce(text, c) ==
  /\ from_str(text).ok
  /\ c = prepare(hook, from_str(text).cfg)

\* The file a call loaded its record from, where the call record keeps it.
LoadedNode ==
  IF last.op \in {"open", "from_path"} THEN last.saw.node
  ELSE IF last.op = "reload" THEN fs[last.saw.path]
  ELSE fs[Unwrap(last.saw.path)]

\* The record a call delivered, as an Option.
Delivered ==
  IF last.op = "open"
  THEN IF last.res.tag = "FileValid" THEN Some(last.res.cfg) ELSE NoneV
  ELSE IF last.op \in {"find", "from_path"}
  THEN IF last.res.tag = "Exists" /\ last.res.open.tag = "FileValid"
       THEN Some(last.res.open.cfg) ELSE NoneV
  ELSE IF last.op \in {"setup", "setup_replace_invalid"}
  THEN IF last.res.ok THEN Some(Unwrap(last.res.cf).data) ELSE NoneV
  ELSE IF last.op = "reload"
  THEN IF last.res.ok THEN Some(Unwrap(cf).data) ELSE NoneV
  ELSE NoneV

\* C14: the record that open, find, from_path, setup, setup_replace_invalid
\* or reload delivers is the record parsed from the file with prepare applied
\* to it once; after a create-then-reopen it is the record parsed from
\* DEFAULT with prepare applied once; where the parse fails no record is
\* delivered.
C14_PreparedOnce ==
  /\ (IsSome(Delivered) /\ (~touched \/ last.op \in {"open", "from_path"}))
     => /\ LoadedNode.kind = "file"
        /\ PreparedOnce(LoadedNode.text, Unwrap(Delivered))
  /\ (last.op \in {"setup", "setup_replace_invalid"} /\ SaysCreated(last.res))
     => PreparedOnce(dflt, Unwrap(Delivered))
  /\ (/\ last.op \in {"open", "from_path"}
      /\ read_file([p \in {last.args[1]} |-> last.saw.node], last.args[1]).err = IoOk
      /\ ~from_str(last.saw.node.text).ok)
     => /\ Delivered = NoneV
        /\ last.op = "open" => last.res = FileInvalid("TomlDeError")
        /\ last.op = "from_path"
           => last.res = Exists(last.args[1], FileInvalid("TomlDeError"))
  /\ last.op = "default"
     => IF from_str(dflt).ok
        THEN last.res.ok /\ PreparedOnce(dflt, last.res.cfg)
        ELSE ~last.res.ok /\ last.res.cfg = NoCfg

C14_Witness ==
  /\ last.op = "setup"
  /\ SaysCreated(last.res)
  /\ ~touched
  /\ hook = "swap"
  /\ fs[Unwrap(last.saw.path)].text = TxtUpper
  /\ Delivered = Some("a")
  /\ prepare(hook, "a") # "a"

\* The arguments of the last create or save, and what it found.
CbArg == IF last.op = "create" THEN last.args[2] ELSE last.args[1]
CpArg == IF last.op = "create" THEN last.args[3] ELSE last.args[2]
PathArg == IF last.op = "create" THEN last.args[1] ELSE Unwrap(cf).path
Existed == last.saw.node.kind # "none"

\* The steps the last create or save carried out, and those that failed.
Ran(name) == \E i \in DOMAIN last.saw.steps : last.saw.steps[i][1] = name
Failed(name) ==
  \E i \in DOMAIN last.saw.steps :
    last.saw.steps[i][1] = name /\ last.saw.steps[i][2] # IoOk

\* C15 as stated: in every create or save exactly one of the backup branch
\* and the parent branch executes, the backup branch when create_backup is
\* set and a file exists, and the write executes whenever no earlier step
\* failed.
C15_AsStated ==
  last.op \in {"create", "save"}
  => /\ last.saw.branch \in {"backup", "parent"}
     /\ (CbArg /\ Existed) => last.saw.branch = "backup"
     /\ (~Failed("create_dir_all") /\ ~Failed("to_string")) => Ran("write")

\* C15, amended: in every create or save at most one of the backup branch
\* and the parent branch executes: the backup branch exactly when
\* create_backup is set and something exists at the path (whatever
\* create_parent is), the parent branch exactly when that is not so and
\* create_parent is set, and neither otherwise.  The rename runs in the backup
\* branch when a backup path can be derived, create_dir_all runs in the parent
\* branch when the parent is missing.  The write executes exactly when no
\* earlier step other than the rename failed.
C15_BackupOrParent ==
  last.op \in {"create", "save"}
  => /\ last.saw.branch = "backup" <=> (CbArg /\ Existed)
     /\ last.saw.branch = "parent" <=> (CpArg /\ ~(CbArg /\ Existed))
     /\ last.saw.branch = "none" <=> (~CpArg /\ ~(CbArg /\ Existed))
     /\ ~(Ran("rename") /\ Ran("create_dir_all"))
     /\ Ran("rename")
        <=> (last.saw.branch = "backup" /\ IsSome(get_backup(PathArg)))
     /\ Ran("create_dir_all")
        <=> /\ last.saw.branch = "parent"
            /\ IsSome(parent(PathArg))
            /\ last.saw.par.kind = "none"
     /\ last.op = "save" => (Ran("to_string") <=> ~Failed("create_dir_all"))
     /\ Ran("write") <=> (~Failed("create_dir_all") /\ ~Failed("to_string"))
     /\ Len(last.saw.steps) <= 3

C15_Witness ==
  /\ last.op = "create"
  /\ CbArg
  /\ CpArg
  /\ Existed
  /\ last.saw.branch = "backup"
  /\ Ran("rename")
  /\ ~Ran("create_dir_all")
  /\ Ran("write")

\* The error of a step the last create or save carried out.
StepErr(name) ==
  IF ~Ran(name) THEN "<not run>"
  ELSE LET i == CHOOSE j \in DOMAIN last.saw.steps : last.saw.steps[j][1] = name
       IN  last.saw.steps[i][2]

\* The result of create is the error of the first of its steps, the rename
\* left aside, that failed.
CreateReturnsFirstFailure ==
  last.op = "create"
  => last.res = IF Failed("create_dir_all") THEN StepErr("create_dir_all")
                ELSE StepErr("write")

\* The same for save, with the kind of error.
SaveReturnsFirstFailure ==
  last.op = "save"
  => last.res = IF Failed("create_dir_all")
                THEN SaveErr("FileInaccessible", StepErr("create_dir_all"))
                ELSE IF Failed("to_string")
                THEN SaveErr("SerializeFailure", StepErr("to_string"))
                ELSE IF Failed("write")
                THEN SaveErr("FileInaccessible", StepErr("write"))
                ELSE SaveOk

\* open returns the read error or the parse error of the file it was given.
OpenReturnsFailure ==
  last.op = "open"
  => LET rd == read_file([q \in {last.args[1]} |-> last.saw.node], last.args[1])
     IN  IF rd.err # IoOk THEN last.res = FileInaccessible(rd.err)
         ELSE IF ~from_str(rd.data).ok
         THEN last.res = FileInvalid(from_str(rd.data).err)
         ELSE last.res.tag = "FileValid"

\* The backup of the last create or save came to nothing: the rename failed,
\* or no backup path could be derived.
BackupCameToNothing ==
  /\ last.op \in {"create", "save"}
  /\ last.saw.branch = "backup"
  /\ Failed("rename") \/ ~Ran("rename")

\* C16: when the rename fails, or no backup path can be derived, create and
\* save return and leave what they would have without the backup: the failure
\* is not reported.  Every other failure is returned: create and save return
\* the error of the first failing step, open returns the read or the parse
\* error, and setup turns the error of its create or of its open into its
\* failure message.
C16_OnlyRenameIgnored ==
  [][calls' = calls + 1
     => /\ CreateReturnsFirstFailure'
        /\ SaveReturnsFirstFailure'
        /\ OpenReturnsFailure'
        /\ (BackupCameToNothing' /\ last'.op = "create")
           => /\ last'.res = create(fs, last'.args[1], FALSE, FALSE).err
              /\ fs' = create(fs, last'.args[1], FALSE, FALSE).fs
        /\ (BackupCameToNothing' /\ last'.op = "save")
           => /\ last'.res = save(fs, Unwrap(cf), FALSE, FALSE).res
              /\ fs' = save(fs, Unwrap(cf), FALSE, FALSE).fs
        /\ last'.op \in {"setup", "setup_replace_invalid"}
           => LET found == last'.saw
                  path == Unwrap(found.path)
                  made == create(fs, path, TRUE, TRUE)
                  creates == \/ found.tag = "DoesNotExist"
                             \/ /\ last'.op = "setup_replace_invalid"
                                /\ found.tag = "Exists"
                                /\ found.open.tag = "FileInvalid"
                  o == IF creates THEN open(made.fs, path) ELSE found.open
              IN  found.tag # "NoPath"
                  => IF creates /\ made.err # IoOk
                     THEN last'.res = Err(MsgCannotSave(path, made.err))
                     ELSE IF o.tag = "FileInaccessible"
                     THEN last'.res = Err(MsgCannotAccess(path, o.err))
                     ELSE IF o.tag = "FileInvalid"
                     THEN last'.res = Err(MsgCannotRead(path, o.err))
                     ELSE last'.res.ok]_vars

C16_Witness ==
  /\ last.op = "create"
  /\ last.saw.branch = "backup"
  /\ Failed("rename")
  /\ last.res = IoOk
  /\ ~touched
  /\ fs[PathArg] = RegFile(dflt, TRUE)
  /\ fs[Unwrap(get_backup(PathArg))] = last.saw.bak

\* C17: find returns NoPath exactly when the path cannot be resolved (there
\* is no home directory), DoesNotExist with the resolved path exactly when
\* nothing exists there, and Exists with the resolved path and the outcome of
\* open on it exactly when something exists there.  from_path never returns
\* NoPath and tells DoesNotExist from Exists by the same test, on the path it
\* was given.  ConfigFind::path is None for NoPath and the path for the others.
C17_FindClassifies ==
  [][(calls' = calls + 1 /\ last'.op \in {"find", "from_path"})
     => LET r == last'.res
            a == last'.args
            p == IF last'.op = "from_path" THEN Some(a[1])
                 ELSE IF ~home THEN NoneV
                 ELSE Some(<<"cfg", a[3], a[4]>>)
        IN  /\ r.tag \in {"NoPath", "DoesNotExist", "Exists"}
            /\ r.tag = "NoPath" <=> p = NoneV
            /\ r.tag = "DoesNotExist" <=> (IsSome(p) /\ fs[Unwrap(p)].kind = "none")
            /\ r.tag = "Exists" <=> (IsSome(p) /\ fs[Unwrap(p)].kind # "none")
            /\ r.tag = "Exists" => r.open = open(fs, Unwrap(p))
            /\ r.tag # "Exists" => r.open = NoOpen
            /\ r.path = p
            /\ find_path_of(r) = p
            /\ last'.op = "from_path" => r.tag # "NoPath"]_vars

C17_Witness ==
  /\ last.op = "find"
  /\ ~touched
  /\ last.res.tag = "Exists"
  /\ find_path_of(last.res) = Some(<<"cfg", last.args[3], last.args[4]>>)
  /\ last.res.open = open(fs, Unwrap(last.res.path))
  /\ last.res.open.tag = "FileInvalid"

\* C18: setup_replace_invalid never reaches its unreachable!() arm: whatever
\* find returns, an invalid file is taken by the arm that replaces it, and
\* the call returns a result.
C18_NeverUnreachable ==
  /\ \A a \in Args :
       LET r == setup_replace_invalid(fs, a[1], a[2], a[3], a[4])
       IN  ~r.panic /\ r.res.msg # <<"unreachable">>
  /\ last.op = "setup_replace_invalid"
     => /\ ~last.panic
        /\ last.res.msg # <<"unreachable">>
        /\ SawInvalid
           => last.res.msg[1] \in {"Cannot save ", "Cannot access ",
                                   "Cannot read ", "Created new Config file: "}

C18_Witness ==
  /\ last.op = "setup_replace_invalid"
  /\ SawInvalid
  /\ ~last.panic
  /\ last.res = Err(MsgCannotRead(Unwrap(last.saw.path), "TomlDeError"))
  /\ ~touched
  /\ fs[Unwrap(last.saw.path)] = RegFile(dflt, TRUE)

\* C19: setup changes the filesystem only when find returns DoesNotExist;
\* setup_replace_invalid only when find returns DoesNotExist or Exists with
\* an invalid file; find and reload never change it.
C19_Frame ==
  [][calls' = calls + 1
     => /\ last'.op \in {"find", "reload"} => fs' = fs
        /\ (last'.op = "setup" /\ fs' # fs) => last'.saw.tag = "DoesNotExist"
        /\ (last'.op = "setup_replace_invalid" /\ fs' # fs)
           => \/ last'.saw.tag = "DoesNotExist"
              \/ /\ last'.saw.tag = "Exists"
                 /\ last'.saw.open.tag = "FileInvalid"
        /\ last'.op \in {"setup", "setup_replace_invalid"}
           => last'.saw = find(fs, last'.args[1], last'.args[2], last'.args[3],
                               last'.args[4])]_vars

C19_Witness ==
  /\ last.op = "setup"
  /\ SawInvalid
  /\ ~touched
  /\ Malformed(fs[Unwrap(last.saw.path)])
  /\ open(fs, Unwrap(last.saw.path)) = last.saw.open
  /\ ~exists(fs, Unwrap(get_backup(Unwrap(last.saw.path))))

\* C20: a save that returns SerializeFailure has not written the bound path:
\* nothing was created there, and what was there is still there, or is now at
\* the backup path, where the rename put it.
C20_SerializeFailureKeepsContent ==
  [][(/\ calls' = calls + 1
      /\ last'.op = "save"
      /\ last'.res.kind = "SerializeFailure")
     => LET path == Unwrap(cf).path
            backup == get_backup(path)
        IN  /\ ~Ran("write")'
            /\ ~to_string(Unwrap(cf).data).ok
            /\ fs[path].kind = "none" => fs'[path] = Absent
            /\ fs[path].kind # "none"
               => \/ fs'[path] = fs[path]
                  \/ /\ fs'[path] = Absent
                     /\ IsSome(backup)
                     /\ fs'[Unwrap(backup)] = fs[path]
                     /\ last'.args[1]]_vars

C20_Witness ==
  /\ last.op = "save"
  /\ last.res.kind = "SerializeFailure"
  /\ CbArg
  /\ last.saw.node.kind = "file"
  /\ ~touched
  /\ fs[PathArg] = Absent
  /\ fs[Unwrap(get_backup(PathArg))] = last.saw.node

\* Whatever exists in a filesystem lies in a directory that exists.
ParentsExist(f) ==
  \A q \in Paths \ {Root} :
    f[q].kind # "none" => f[Unwrap(parent(q))].kind = "dir"

\* C21: when create or save takes the backup branch, the parent directory of
\* the path exists when the call starts, the call leaves it as it is, and so
\* it exists at the time of the write: create_dir_all was not needed, and the
\* write, when it fails, does not fail for a missing parent.
C21_BackupBranchHasParent ==
  [][(/\ calls' = calls + 1
      /\ last'.op \in {"create", "save"}
      /\ last'.saw.branch = "backup")
     => LET path == IF last'.op = "create" THEN last'.args[1]
                    ELSE Unwrap(cf).path
        IN  /\ fs[path].kind # "none"
            /\ ParentsExist(fs)
            /\ ParentsExist(fs')
            /\ ~Ran("create_dir_all")'
            /\ StepErr("write")' # "NotFound"
            /\ last'.op = "create" => Ran("write")'
            /\ IsSome(parent(path))
               => /\ fs[Unwrap(parent(path))].kind = "dir"
                  /\ fs'[Unwrap(parent(path))] = fs[Unwrap(parent(path))]
                  /\ last'.saw.par = fs[Unwrap(parent(path))]]_vars

C21_Witness ==
  /\ last.op = "save"
  /\ last.saw.branch = "backup"
  /\ CpArg
  /\ Ran("rename")
  /\ ~Failed("rename")
  /\ StepErr("write") = IoOk
  /\ last.saw.par.kind = "dir"
  /\ ~touched
  /\ fs[Unwrap(parent(PathArg))] = last.saw.par
  /\ fs[PathArg].kind = "file"

====
